---------------------------- MODULE Spec2Model ----------------------------
(***************************************************************************)
(* Model of the data plane of the virtual-texturing crate:                *)
(*   - PageId::from_bytes and the PageId ordering   (src/src/streaming.rs) *)
(*   - TextureStorage::write_row / open_row_file / import_texture and the  *)
(*     MipLevelGen it drives                         (src/src/storage.rs)  *)
(*   - the feedback worker of StreamingHandle::new  (src/src/streaming.rs) *)
(*   - TextureMetadata, TextureStorage::new / load   (src/src/storage.rs)  *)
(* Row buffers are modelled by their length in bytes; every index         *)
(* computation, bounds check, assertion and early return of the source is *)
(* kept, so a result is "Ok", an error kind, or "Panic".                  *)
(***************************************************************************)
EXTENDS Integers, Sequences, FiniteSets, TLC

VARIABLES
    word,       \* PageId: the 4-byte chunk handed to from_bytes
    pid,        \* PageId: the PageId decoded from word (<<>> before decoding)
    other,      \* PageId: the second operand of a comparison
    ord,        \* PageId: result of pid.cmp(&other)
    pord,       \* PageId: result of pid.partial_cmp(&other)
    eq,         \* PageId: result of pid == other (derived PartialEq)
    metadata,   \* TextureStorage.metadata
    files,      \* the row files of TextureStorage.directory: name -> length
    last,       \* the last storage operation: its arguments and outcome
    mipmap_generator,   \* a MipLevelGen chain held by a caller (<<>>: not built)
    pc,         \* feedback worker: its position in the closure's loop
    pending,    \* channel: notifications sent and not yet received
    sent,       \* channel: notifications sent so far
    started,    \* feedback worker: reduction cycles started so far
    sender,     \* StreamingHandle.sender is alive (the handle is not dropped)
    prepass_read_buffer,    \* the readback buffer: "unmapped", "mapping" or "mapped"
    buffer_view,    \* feedback worker: the view of the mapped range and the bytes read
    required_pages, \* feedback worker: its local Vec<PageId>
    cycle,      \* feedback worker: the steps of its current cycle, in order
    dir,        \* the storage directory exists
    sidecar,    \* {directory}/meta.json: <<>> (absent) or <<its content>>
    call        \* the last TextureMetadata / new / load call and its outcome

pageVars == <<word, pid, other, ord, pord, eq>>
storeVars == <<metadata, files, last, mipmap_generator>>
streamVars ==
    <<pc, pending, sent, started, sender, prepass_read_buffer, buffer_view, required_pages, cycle>>
metaVars == <<dir, sidecar, call>>
vars ==
    <<word, pid, other, ord, pord, eq, metadata, files, last, mipmap_generator,
      pc, pending, sent, started, sender, prepass_read_buffer, buffer_view, required_pages, cycle,
      dir, sidecar, call>>

(***************************************************************************)
(* Fixed-width integer helpers.                                            *)
(***************************************************************************)
RECURSIVE Pow2(_)
Pow2(n) == IF n = 0 THEN 1 ELSE 2 * Pow2(n - 1)

\* x >> n on an unsigned integer
Shr(x, n) == x \div Pow2(n)

\* x << n on a u16 (bits shifted out are lost)
Shl16(x, n) == (x * Pow2(n)) % 65536

RECURSIVE BitAnd(_, _)
BitAnd(a, b) ==
    IF a = 0 \/ b = 0 THEN 0
    ELSE (IF a % 2 = 1 /\ b % 2 = 1 THEN 1 ELSE 0) + 2 * BitAnd(a \div 2, b \div 2)

RECURSIVE BitOr(_, _)
BitOr(a, b) ==
    IF a = 0 THEN b
    ELSE IF b = 0 THEN a
    ELSE (IF a % 2 = 1 \/ b % 2 = 1 THEN 1 ELSE 0) + 2 * BitOr(a \div 2, b \div 2)

(***************************************************************************)
(* PageId (streaming.rs).                                                  *)
(***************************************************************************)
\* Bound: how many of ByteSample's values each byte of a word is drawn from.
NumByteSamples == 5

ByteSample == <<0, 4, 16, 1, 64, 255, 3, 128>>

ByteSamples == {ByteSample[i] : i \in 1..NumByteSamples}

\* The 4-byte chunks of a feedback buffer that the model feeds to from_bytes.
Words == [1..4 -> ByteSamples]

PageId(x, y, m) == [page_x |-> x, page_y |-> y, mip_level |-> m]

\* Mutant of from_bytes: page_y_low taken from the low nibble of bytes[3].
from_bytes_low_nibble(bytes) ==
    LET page_x_high == bytes[1]
        page_x_low == Shr(bytes[2], 2)
        page_y_high == BitAnd(bytes[2], 3)
        page_y_mid == bytes[3]
        page_y_low == BitAnd(bytes[4], 15)
        mip_level == BitAnd(bytes[4], 15)
    IN PageId(BitOr(page_x_low, Shl16(page_x_high, 8)),
              BitOr(BitOr(page_y_low, Shl16(page_y_mid, 2)), Shl16(page_y_high, 8)),
              mip_level)

\* PageId::from_bytes; bytes[1..4] are the source's bytes[0..3].
from_bytes(bytes) ==
    LET page_x_high == bytes[1]
        page_x_low == Shr(bytes[2], 2)
        page_y_high == BitAnd(bytes[2], 3)
        page_y_mid == bytes[3]
        page_y_low == Shr(bytes[4], 4)
        mip_level == BitAnd(bytes[4], 15)
    IN PageId(BitOr(page_x_low, Shl16(page_x_high, 8)),
              BitOr(BitOr(page_y_low, Shl16(page_y_mid, 2)), Shl16(page_y_high, 8)),
              mip_level)

\* Ord::cmp on the unsigned integer fields
IntCmp(a, b) == IF a < b THEN "Less" ELSE IF a > b THEN "Greater" ELSE "Equal"

\* Ordering::then
Then(first, second) == IF first = "Equal" THEN second ELSE first

\* Ordering::reverse
Reverse(o) == IF o = "Less" THEN "Greater" ELSE IF o = "Greater" THEN "Less" ELSE "Equal"

\* Mutant of cmp: the page_x comparison is dropped.
cmp_without_x(a, b) ==
    Then(IntCmp(a.mip_level, b.mip_level), IntCmp(a.page_y, b.page_y))

\* impl Ord for PageId
cmp(a, b) ==
    Then(Then(IntCmp(a.mip_level, b.mip_level), IntCmp(a.page_y, b.page_y)),
         IntCmp(a.page_x, b.page_x))

\* impl PartialOrd for PageId
partial_cmp(a, b) == [some |-> TRUE, value |-> cmp(a, b)]

\* #[derive(PartialEq, Eq)] on PageId: field-wise equality
PageIdEq(a, b) ==
    a.page_x = b.page_x /\ a.page_y = b.page_y /\ a.mip_level = b.mip_level

\* Nothing decoded or compared yet: the Option-valued variables are <<>> (None)
\* or <<v>> (Some(v)).
PageIdle ==
    /\ pid = <<>>
    /\ other = <<>>
    /\ ord = <<>>
    /\ pord = <<>>
    /\ eq = <<>>

PageInit ==
    /\ word \in Words
    /\ PageIdle

\* One chunk of the feedback buffer is decoded (chunks_exact(4).map(from_bytes)).
Decode ==
    /\ pid = <<>>
    /\ pid' = <<from_bytes(word)>>
    /\ UNCHANGED <<word, other, ord, pord, eq>>

\* The PageIds the chunks of Words decode to.
DecodedIds == {from_bytes(w) : w \in Words}

\* The decoded PageId is compared with the PageId of another chunk
\* (the comparator of sort_unstable_by, and dedup's ==).
Compare ==
    /\ pid # <<>>
    /\ other = <<>>
    /\ \E b \in DecodedIds :
        LET a == pid[1]
        IN /\ other' = <<b>>
           /\ ord' = <<cmp(a, b)>>
           /\ pord' = <<partial_cmp(a, b)>>
           /\ eq' = <<PageIdEq(a, b)>>
    /\ UNCHANGED <<word, pid>>

(***************************************************************************)
(* The feedback worker spawned by StreamingHandle::new (streaming.rs).     *)
(* The render loop that maps the readback buffer and notifies the worker   *)
(* is not part of the crate's sources; it follows the protocol of the      *)
(* specification: map the buffer, and notify once the mapping finished.    *)
(***************************************************************************)
PREPASS_BYTES_PER_TEXEL == 4

\* Bound: the number of texels (4-byte chunks) of the prepass read buffer.
MaxChunks == 3

\* Bound: the number of notifications the render loop sends.
MaxSent == 3

\* The texels the prepass may write: two mip levels, two rows of one level,
\* and two different texels that decode to one PageId.
FeedbackWords == {<<0, 4, 0, 16>>, <<0, 0, 0, 1>>, <<0, 4, 0, 80>>, <<0, 4, 1, 16>>}

\* The bytes of a sequence of texels, in buffer order.
Flatten(ws) ==
    [i \in 1..(PREPASS_BYTES_PER_TEXEL * Len(ws)) |->
        ws[((i - 1) \div PREPASS_BYTES_PER_TEXEL) + 1]
          [((i - 1) % PREPASS_BYTES_PER_TEXEL) + 1]]

\* The contents the buffer (width * height * PREPASS_BYTES_PER_TEXEL bytes) may have.
FeedbackBuffers ==
    {Flatten(ws) : ws \in UNION {[1..n -> FeedbackWords] : n \in 0..MaxChunks}}

\* slice::chunks_exact: the full chunks of n bytes, a shorter tail is left out.
chunks_exact(bytes, n) ==
    [i \in 1..(Len(bytes) \div n) |-> SubSeq(bytes, n * (i - 1) + 1, n * i)]

\* buffer_view.chunks_exact(4).map(PageId::from_bytes).collect::<Vec<_>>()
collect(bytes) ==
    LET chunks == chunks_exact(bytes, PREPASS_BYTES_PER_TEXEL)
    IN [i \in 1..Len(chunks) |-> from_bytes(chunks[i])]

\* The comparator handed to sort_unstable_by: |a, b| a.cmp(b).reverse()
SortComparator(a, b) == Reverse(cmp(a, b))

\* x put into the sorted vector v, before the first element it does not follow.
RECURSIVE InsertSorted(_, _)
InsertSorted(x, v) ==
    IF v = <<>> THEN <<x>>
    ELSE IF SortComparator(x, Head(v)) = "Greater"
         THEN <<Head(v)>> \o InsertSorted(x, Tail(v))
         ELSE <<x>> \o v

\* A sort that leaves the vector as it is.
sort_skipped(v) == v

\* Vec::sort_unstable_by with SortComparator: the elements of v in the order of
\* the comparator (elements the comparator holds equal are equal PageIds, so
\* the unstable sort has one result).
RECURSIVE sort_unstable_by(_)
sort_unstable_by(v) ==
    IF v = <<>> THEN <<>>
    ELSE InsertSorted(Head(v), sort_unstable_by(Tail(v)))

\* Vec::dedup: an element equal (PartialEq) to the one kept before it is removed.
RECURSIVE dedup(_)
dedup(v) ==
    IF Len(v) < 2 THEN v
    ELSE IF PageIdEq(v[1], v[2]) THEN dedup(Tail(v))
         ELSE <<v[1]>> \o dedup(Tail(v))

NoView == [state |-> "none", bytes |-> <<>>]

\* The state StreamingHandle::new returns in: the channel is empty, the buffer
\* is created unmapped, the worker thread waits in rx.recv().
StreamInit ==
    /\ pc = "recv"
    /\ pending = 0
    /\ sent = 0
    /\ started = 0
    /\ sender = TRUE
    /\ prepass_read_buffer = "unmapped"
    /\ buffer_view = NoView
    /\ required_pages = <<>>
    /\ cycle = <<>>

\* Render loop: asks for the buffer to be mapped (wgpu refuses a buffer that
\* is mapped or being mapped).
MapAsync ==
    /\ sender
    /\ prepass_read_buffer = "unmapped"
    /\ sent < MaxSent
    /\ prepass_read_buffer' = "mapping"
    /\ UNCHANGED <<pc, pending, sent, started, sender, buffer_view, required_pages, cycle>>

\* Render loop: the mapping finished, the worker is notified (sender.send(())).
\* The send fails when the worker thread, the owner of rx, is gone.
MapCallback ==
    /\ sender
    /\ prepass_read_buffer = "mapping"
    /\ prepass_read_buffer' = "mapped"
    /\ sent' = sent + 1
    /\ pending' = IF pc = "panicked" THEN pending ELSE pending + 1
    /\ UNCHANGED <<pc, started, sender, buffer_view, required_pages, cycle>>

\* The StreamingHandle is dropped, and its Sender with it.
DropHandle ==
    /\ sender
    /\ sender' = FALSE
    /\ UNCHANGED <<pc, pending, sent, started, prepass_read_buffer, buffer_view, required_pages, cycle>>

\* A receive that leaves the notification in the channel.
RecvPeek ==
    /\ pc = "recv"
    /\ pending > 0
    /\ started < MaxSent
    /\ started' = started + 1
    /\ pc' = "get_mapped_range"
    /\ cycle' = <<"recv">>
    /\ UNCHANGED <<pending, sent, sender, prepass_read_buffer, buffer_view, required_pages>>

\* A receive that does not wait for a notification (try_recv).
RecvNonBlocking ==
    /\ pc = "recv"
    /\ started < MaxSent
    /\ pending' = IF pending > 0 THEN pending - 1 ELSE 0
    /\ started' = started + 1
    /\ pc' = "get_mapped_range"
    /\ cycle' = <<"recv">>
    /\ UNCHANGED <<sent, sender, prepass_read_buffer, buffer_view, required_pages>>

\* rx.recv() returns Ok(()): a notification is taken from the channel and a
\* cycle starts. With an empty channel and a live Sender the thread blocks.
Recv ==
    /\ pc = "recv"
    /\ pending > 0
    /\ pending' = pending - 1
    /\ started' = started + 1
    /\ pc' = "get_mapped_range"
    /\ cycle' = <<"recv">>
    /\ UNCHANGED <<sent, sender, prepass_read_buffer, buffer_view, required_pages>>

\* rx.recv() returns Err(RecvError): the channel is empty and every Sender is
\* dropped; unwrap() panics and the thread ends.
RecvDisconnected ==
    /\ pc = "recv"
    /\ pending = 0
    /\ ~sender
    /\ pc' = "panicked"
    /\ UNCHANGED <<pending, sent, started, sender, prepass_read_buffer, buffer_view, required_pages, cycle>>

\* move_buffer.slice(..).get_mapped_range(): panics unless the buffer is mapped.
GetMappedRange ==
    /\ pc = "get_mapped_range"
    /\ IF prepass_read_buffer = "mapped"
       THEN /\ buffer_view' = [state |-> "valid", bytes |-> <<>>]
            /\ pc' = "unmap"
            /\ cycle' = Append(cycle, "get_mapped_range")
       ELSE /\ pc' = "panicked"
            /\ UNCHANGED <<buffer_view, cycle>>
    /\ UNCHANGED <<pending, sent, started, sender, prepass_read_buffer, required_pages>>

\* move_buffer.unmap() while buffer_view is alive: wgpu either rejects the call
\* (a panic, the buffer stays mapped) or unmaps and leaves the view dangling.
Unmap ==
    /\ pc = "unmap"
    /\ cycle' = Append(cycle, "unmap")
    /\ \/ /\ buffer_view.state = "valid"
          /\ pc' = "panicked"
          /\ UNCHANGED <<prepass_read_buffer, buffer_view>>
       \/ /\ prepass_read_buffer' = "unmapped"
          /\ buffer_view' = IF buffer_view.state = "valid"
                            THEN [buffer_view EXCEPT !.state = "stale"]
                            ELSE buffer_view
          /\ pc' = "collect"
    /\ UNCHANGED <<pending, sent, started, sender, required_pages>>

\* The view is read chunk by chunk and decoded. What a view yields is up to
\* the GPU while it is valid, and to the allocator once it is stale.
Collect ==
    /\ pc = "collect"
    /\ \E bytes \in FeedbackBuffers :
        /\ buffer_view' = [buffer_view EXCEPT !.bytes = bytes]
        /\ required_pages' = collect(bytes)
    /\ cycle' = Append(cycle, "collect")
    /\ pc' = "sort"
    /\ UNCHANGED <<pending, sent, started, sender, prepass_read_buffer>>

\* required_pages.sort_unstable_by(|a, b| a.cmp(b).reverse())
Sort ==
    /\ pc = "sort"
    /\ required_pages' = sort_unstable_by(required_pages)
    /\ cycle' = Append(cycle, "sort")
    /\ pc' = "dedup"
    /\ UNCHANGED <<pending, sent, started, sender, prepass_read_buffer, buffer_view>>

\* required_pages.dedup(); the loop body ends (the view is dropped) and the
\* worker is back at rx.recv(). The bytes read and the reduced vector are kept
\* for inspection until the next cycle.
Dedup ==
    /\ pc = "dedup"
    /\ required_pages' = dedup(required_pages)
    /\ cycle' = Append(cycle, "dedup")
    /\ buffer_view' = [buffer_view EXCEPT !.state = "none"]
    /\ pc' = "recv"
    /\ UNCHANGED <<pending, sent, started, sender, prepass_read_buffer>>

\* No StreamingHandle: the worker does not exist.
StreamIdle ==
    /\ pc = "none"
    /\ pending = 0
    /\ sent = 0
    /\ started = 0
    /\ sender = FALSE
    /\ prepass_read_buffer = "unmapped"
    /\ buffer_view = NoView
    /\ required_pages = <<>>
    /\ cycle = <<>>

\* No metadata call made, no directory on disk.
MetaIdle ==
    /\ dir = FALSE
    /\ sidecar = <<>>
    /\ call = <<>>

StoreIdle ==
    /\ metadata = <<>>
    /\ files = <<>>
    /\ last = <<>>
    /\ mipmap_generator = <<>>

PageNext ==
    \/ Decode /\ UNCHANGED <<storeVars, streamVars, metaVars>>
    \/ Compare /\ UNCHANGED <<storeVars, streamVars, metaVars>>

PageSpecInit == PageInit /\ StoreIdle /\ StreamIdle /\ MetaIdle

StreamNext ==
    \/ MapAsync /\ UNCHANGED <<pageVars, storeVars, metaVars>>
    \/ MapCallback /\ UNCHANGED <<pageVars, storeVars, metaVars>>
    \/ DropHandle /\ UNCHANGED <<pageVars, storeVars, metaVars>>
    \/ Recv /\ UNCHANGED <<pageVars, storeVars, metaVars>>
    \/ RecvDisconnected /\ UNCHANGED <<pageVars, storeVars, metaVars>>
    \/ GetMappedRange /\ UNCHANGED <<pageVars, storeVars, metaVars>>
    \/ Unmap /\ UNCHANGED <<pageVars, storeVars, metaVars>>
    \/ Collect /\ UNCHANGED <<pageVars, storeVars, metaVars>>
    \/ Sort /\ UNCHANGED <<pageVars, storeVars, metaVars>>
    \/ Dedup /\ UNCHANGED <<pageVars, storeVars, metaVars>>

StreamSpecInit == StreamInit /\ word = <<>> /\ PageIdle /\ StoreIdle /\ MetaIdle

StreamSpec == StreamSpecInit /\ [][StreamNext]_vars

\* The worker is a thread of its own: a step it can take, it takes.
WorkerRuns ==
    /\ WF_streamVars(Recv)
    /\ WF_streamVars(RecvDisconnected)
    /\ WF_streamVars(GetMappedRange)
    /\ WF_streamVars(Unmap)
    /\ WF_streamVars(Collect)
    /\ WF_streamVars(Sort)
    /\ WF_streamVars(Dedup)

StreamLive == StreamSpecInit /\ [][StreamNext]_vars /\ WorkerRuns

PageSpec == PageSpecInit /\ [][PageNext]_vars

(***************************************************************************)
(* Page layout constants and TextureMetadata (storage.rs).                 *)
(***************************************************************************)
PAGE_SIZE == 128

PAGE_BORDER_SIZE == 4

PAGE_STRIDE == PAGE_SIZE - 2 * PAGE_BORDER_SIZE

MAX_TEXTURE_SIZE == 2048

\* u16::ilog2
RECURSIVE ilog2(_)
ilog2(n) == IF n < 2 THEN 0 ELSE 1 + ilog2(n \div 2)

\* Bound: the largest mip_levels of the textures the model imports.
MaxMip == 2

\* TextureMetadata::from_mip; <<>> when one of its assertions fails.
TextureMetadata_from_mip(mip_levels, bytes_per_texel) ==
    IF ~(mip_levels <= ilog2(MAX_TEXTURE_SIZE)) THEN <<>>
    ELSE IF ~(bytes_per_texel = 4) THEN <<>>
    ELSE <<[side_len |-> Pow2(mip_levels),
            bytes_per_texel |-> bytes_per_texel,
            mip_levels |-> mip_levels]>>

(***************************************************************************)
(* The file system under TextureStorage.directory: a function from the     *)
(* row-file name <<mip, row>> ("{mip}-{row}") to the file's length.        *)
(***************************************************************************)
NoFiles == [n \in {} |-> 0]

Exists(fs, name) == name \in DOMAIN fs

\* The file `name` holds `len` bytes, the other files are untouched.
PutFile(fs, name, len) ==
    [n \in (DOMAIN fs) \cup {name} |-> IF n = name THEN len ELSE fs[n]]

\* OpenOptions::open: the access mode and creation mode are validated before
\* the file is touched (no access mode, or truncate/create without write
\* access, is InvalidInput); then the file is opened, created or truncated.
OpenOptionsOpen(opts, exists) ==
    IF ~opts.read /\ ~opts.write /\ ~opts.append THEN "InvalidInput"
    ELSE IF ~opts.write /\ ~opts.append
            /\ (opts.truncate \/ opts.create \/ opts.create_new) THEN "InvalidInput"
    ELSE IF opts.append /\ opts.truncate /\ ~opts.create_new THEN "InvalidInput"
    ELSE IF exists THEN (IF opts.create_new THEN "AlreadyExists"
                         ELSE IF opts.truncate THEN "Truncated" ELSE "Opened")
    ELSE IF opts.create \/ opts.create_new THEN "Created"
    ELSE "NotFound"

\* The Result of open_row_file for an outcome `o` of OpenOptions::open (every
\* failure is TextureStorageError::IoError) and the file system after.
OpenOutcome(o, fs, name, append) ==
    IF o \in {"Created", "Truncated"}
    THEN [res |-> "Ok", files |-> PutFile(fs, name, 0), append |-> append]
    ELSE IF o = "Opened" THEN [res |-> "Ok", files |-> fs, append |-> append]
    ELSE [res |-> "IoError", files |-> fs, append |-> append]

\* TextureStorage::open_row_file
open_row_file(fs, mip, row, opts) ==
    OpenOutcome(OpenOptionsOpen(opts, Exists(fs, <<mip, row>>)), fs, <<mip, row>>,
                opts.append)

\* The length of a file of `old` bytes after `n` bytes are written through a
\* handle opened at offset 0 (or in append mode).
LenAfterWrite(old, n, append) ==
    IF append THEN old + n ELSE IF n > old THEN n ELSE old

\* data.len() / bytes_per_texel / PAGE_SIZE
TexelWidth(meta, len) == (len \div meta.bytes_per_texel) \div PAGE_SIZE

\* The page count write_row derives from data.len(); -1 when the usize
\* subtraction underflows (a panic in a debug build; in a release build the
\* wrapped value fails the assert_eq that follows: a panic either way).
PageCount(meta, len) ==
    IF TexelWidth(meta, len) < 2 * PAGE_BORDER_SIZE THEN -1
    ELSE (TexelWidth(meta, len) - 2 * PAGE_BORDER_SIZE) \div PAGE_STRIDE

\* The largest `end` of the slices data[start..end] taken by write_row's loops.
LastSliceEnd(page_count, texture_texel_width) ==
    (page_count - 1) * PAGE_STRIDE + (PAGE_SIZE - 1) * texture_texel_width + PAGE_SIZE

\* write_row after open_row_file returned `file`: its `?`, then the two
\* try_for_each loops, page_count * PAGE_SIZE calls of write_all with a slice
\* of PAGE_SIZE bytes each.
WritePages(file, fs, name, len, page_count, texture_texel_width) ==
    IF file.res # "Ok" THEN [res |-> file.res, files |-> fs]
    ELSE IF page_count > 0 /\ LastSliceEnd(page_count, texture_texel_width) > len
         THEN [res |-> "Panic", files |-> file.files]
    ELSE [res |-> "Ok",
          files |-> PutFile(file.files, name,
                            LenAfterWrite(file.files[name],
                                          page_count * PAGE_SIZE * PAGE_SIZE,
                                          file.append))]

\* std::fs::OpenOptions::new(): every option off.
OpenOptionsNew ==
    [read |-> FALSE, write |-> FALSE, append |-> FALSE,
     truncate |-> FALSE, create |-> FALSE, create_new |-> FALSE]

\* Options with write access: OpenOptions::new().write(true).create(true)
\* .truncate(true), which create the file or empty an existing one.
WritableRowFileOptions ==
    [OpenOptionsNew EXCEPT !.write = TRUE, !.create = TRUE, !.truncate = TRUE]

\* The options write_row passes to open_row_file:
\* OpenOptions::new().truncate(true).
RowFileOptions == [OpenOptionsNew EXCEPT !.truncate = TRUE]

\* TextureStorage::write_row on a buffer of `len` bytes: the Result ("Panic"
\* when a division, an assertion or a bounds check fails) and the file system
\* after. mip < 16, so side_len >> mip does not overflow.
TextureStorage_write_row(meta, fs, mip, row, len) ==
    IF meta.bytes_per_texel = 0 THEN [res |-> "Panic", files |-> fs]
    ELSE IF PageCount(meta, len) # Shr(meta.side_len, mip)
         THEN [res |-> "Panic", files |-> fs]
    ELSE WritePages(open_row_file(fs, mip, row, RowFileOptions), fs, <<mip, row>>, len,
                    PageCount(meta, len), TexelWidth(meta, len))

(***************************************************************************)
(* MipLevelGen as defined in storage.rs, the generator import_texture      *)
(* builds.  A chain is the sequence of its nodes in link order: node i's   *)
(* next_mip is node i + 1, and None at the last node.  A call works on a   *)
(* context c = [meta, files, gen, log, res]: the storage's metadata and    *)
(* files, the chain, the storage.write_row calls made so far and the       *)
(* Result so far.                                                          *)
(***************************************************************************)
Node(mip_level) == [mip_level |-> mip_level, stored_row |-> <<>>]

\* from_mip with the test `mip >= base_mip`: one node more than the levels
\* base_mip..mip.
RECURSIVE from_mip_inclusive(_, _)
from_mip_inclusive(mip, base_mip) ==
    IF mip >= base_mip /\ base_mip < 255
    THEN <<Node(base_mip)>> \o from_mip_inclusive(mip, base_mip + 1)
    ELSE <<Node(base_mip)>>

\* MipLevelGen::from_mip (storage.rs): next_mip = (mip < base_mip).then(..).
\* base_mip is a u8: the recursion stops where base_mip + 1 would overflow.
RECURSIVE MipLevelGen_from_mip(_, _)
MipLevelGen_from_mip(mip, base_mip) ==
    IF mip < base_mip /\ base_mip < 255
    THEN <<Node(base_mip)>> \o MipLevelGen_from_mip(mip, base_mip + 1)
    ELSE <<Node(base_mip)>>

\* One storage.write_row call of a run, as logged.
LogEntry(mip, row, len, res) == [mip |-> mip, row |-> row, len |-> len, res |-> res]

\* The context after a storage.write_row call that returned w.
Logged(c, w, mip, row, len) ==
    [c EXCEPT !.files = w.files,
              !.log = Append(c.log, LogEntry(mip, row, len, w.res)),
              !.res = w.res]

\* storage.write_row(mip, row, data) made from a generator.
StorageWrite(c, mip, row, len) ==
    Logged(c, TextureStorage_write_row(c.meta, c.files, mip, row, len), mip, row, len)

\* ImageBuffer::from_raw(width, height, buf) is Some only when buf holds
\* width * height Rgba<u8> pixels; the source unwraps it.
FromRawIsSome(width, height, buflen) == width * height * 4 <= buflen

\* The free function mip_two_rows on rows of l0 and l1 bytes: the length of
\* the boxed row it returns, or -1 when an assertion or an unwrap panics.
\* row_width = l0 / PAGE_SIZE; the borders cut off are PAGE_BORDER_SIZE *
\* row_width bytes; each resize yields (row_width / 2) x (PAGE_SIZE / 2) pixels.
mip_two_rows(l0, l1) ==
    IF ~(l0 = l1) THEN -1
    ELSE IF ~(l0 % (PAGE_SIZE * 2) = 0) THEN -1
    ELSE IF ~FromRawIsSome(l0 \div PAGE_SIZE, PAGE_SIZE - 4,
                           l0 - PAGE_BORDER_SIZE * (l0 \div PAGE_SIZE)) THEN -1
    ELSE IF ~FromRawIsSome(l0 \div PAGE_SIZE, PAGE_SIZE - 4,
                           l1 - PAGE_BORDER_SIZE * (l0 \div PAGE_SIZE)) THEN -1
    ELSE 2 * (((l0 \div PAGE_SIZE) \div 2) * (PAGE_SIZE \div 2) * 4)

\* The outcome of one node's work: the context, and whether a row goes on to
\* next_mip.write_row(row, index).
Stop(c, res) == [c |-> [c EXCEPT !.res = res], forward |-> FALSE, row |-> 0, index |-> 0]

Forward(c, row, index) == [c |-> c, forward |-> TRUE, row |-> row, index |-> index]

\* MipLevelGen::mip_two_rows on node i, given the row the free function
\* returned, up to its last statement.
MipTwoRowsStep(c, i, mipped_row, first_index) ==
    IF ~(c.gen[i].stored_row = <<>>) THEN Stop(c, "Panic")
    ELSE IF ~(first_index % 2 = 0) THEN Stop(c, "Panic")
    ELSE IF mipped_row < 0 THEN Stop(c, "Panic")
    ELSE IF i < Len(c.gen) THEN Forward(c, mipped_row, first_index \div 2)
    ELSE Stop(c, "Ok")

\* MipLevelGen::write_row on node i after its storage.write_row left the
\* context w, up to the call of next_mip.write_row.
WriteRowStep(w, i, row, index) ==
    IF w.res # "Ok" THEN Stop(w, w.res)
    ELSE IF w.gen[i].stored_row = <<>>
         THEN IF ~(index % 2 = 0) THEN Stop(w, "Panic")
              ELSE Stop([w EXCEPT !.gen[i].stored_row = <<[len |-> row, index |-> index]>>],
                        "Ok")
    ELSE MipTwoRowsStep([w EXCEPT !.gen[i].stored_row = <<>>], i,
                        mip_two_rows(w.gen[i].stored_row[1].len, row),
                        w.gen[i].stored_row[1].index)

\* The chain of next_mip.write_row calls that follows a node's outcome m.
RECURSIVE Cascade(_, _)
Cascade(m, i) ==
    IF ~m.forward THEN m.c
    ELSE Cascade(WriteRowStep(StorageWrite(m.c, m.c.gen[i + 1].mip_level,
                                           m.index % 65536, m.row),
                              i + 1, m.row, m.index),
                 i + 1)

\* MipLevelGen::write_row on node i.
MipLevelGen_write_row(c, i, row, index) ==
    Cascade(WriteRowStep(StorageWrite(c, c.gen[i].mip_level, index % 65536, row),
                         i, row, index),
            i)

\* MipLevelGen::mip_two_rows on node i.
MipLevelGen_mip_two_rows(c, i, l0, l1, first_index) ==
    Cascade(MipTwoRowsStep(c, i, mip_two_rows(l0, l1), first_index), i)

\* write_two_rows after its second storage.write_row left the context w1.
WriteTwoRowsMip(w1, i, l0, l1, first_index) ==
    IF w1.res # "Ok" THEN w1
    ELSE MipLevelGen_mip_two_rows(w1, i, l0, l1, first_index)

\* write_two_rows after its first storage.write_row left the context w0.
WriteTwoRowsSecond(w0, i, l0, l1, first_index) ==
    IF w0.res # "Ok" THEN w0
    ELSE WriteTwoRowsMip(StorageWrite(w0, w0.gen[i].mip_level,
                                      (first_index % 65536) + 1, l1),
                         i, l0, l1, first_index)

\* write_two_rows without the `?` on its storage.write_row calls: both rows
\* are handed to the storage whatever the first call returned.
write_two_rows_unchecked(c, i, l0, l1, first_index) ==
    StorageWrite(StorageWrite(c, c.gen[i].mip_level, first_index % 65536, l0),
                 c.gen[i].mip_level, (first_index % 65536) + 1, l1)

\* MipLevelGen::write_two_rows on node i.
MipLevelGen_write_two_rows(c, i, l0, l1, first_index) ==
    WriteTwoRowsSecond(StorageWrite(c, c.gen[i].mip_level, first_index % 65536, l0),
                       i, l0, l1, first_index)

(***************************************************************************)
(* TextureStorage::import_texture.  The byte stream is the number of bytes *)
(* it still yields; the sliding buffer is a Vec<u8>: [len, cap].           *)
(***************************************************************************)
\* Vec::with_capacity(capacity): the capacity is reserved, the length is 0.
VecWithCapacity(capacity) == [len |-> 0, cap |-> capacity]

\* Whether buffer[start..end] is in bounds (it panics otherwise).
SliceOk(len, start, end) == 0 <= start /\ start <= end /\ end <= len

\* Read::read_exact into a slice of n bytes: UnexpectedEof when the stream ends
\* before n bytes.
read_exact(stream, n) ==
    IF stream < n THEN [res |-> "IoError", stream |-> 0]
    ELSE [res |-> "Ok", stream |-> stream - n]

texture_texel_width(meta) == meta.side_len * PAGE_STRIDE + 2 * PAGE_BORDER_SIZE

buffer_border_offset(meta) == texture_texel_width(meta) * PAGE_BORDER_SIZE

page_size_rows(meta) == PAGE_SIZE * texture_texel_width(meta)

\* The capacity import_texture reserves for its buffer.
BufferCapacity(meta) ==
    meta.bytes_per_texel * texture_texel_width(meta)
        * (PAGE_STRIDE * 2 + PAGE_BORDER_SIZE * 2)

\* An import that has ended, or is at the head of iteration `pairs`: the
\* generator context c, the buffer, the stream left, and `done`.
ImportState(c, res, buffer, stream, pairs, done) ==
    [meta |-> c.meta, files |-> c.files, gen |-> c.gen, log |-> c.log, res |-> res,
     buffer |-> buffer, stream |-> stream, pairs |-> pairs, done |-> done]

\* The closure of try_for_each after write_two_rows returned the context w:
\* its `?` ends the import on an error.
ImportAfterWrite(s, r, w) ==
    IF w.res # "Ok" THEN ImportState(w, w.res, s.buffer, r.stream, s.pairs, TRUE)
    ELSE ImportState(w, "Ok", s.buffer, r.stream, s.pairs + 1, FALSE)

\* The body of the try_for_each closure for half_texture_row = s.pairs, after
\* its read_exact returned r: first_row = buffer[0..page_size_rows],
\* second_row = buffer[buffer.capacity() - page_size_rows..].
ImportPair(s, r) ==
    IF r.res # "Ok" THEN ImportState(s, r.res, s.buffer, r.stream, s.pairs, TRUE)
    ELSE IF ~SliceOk(s.buffer.len, 0, page_size_rows(s.meta))
         THEN ImportState(s, "Panic", s.buffer, r.stream, s.pairs, TRUE)
    ELSE IF ~SliceOk(s.buffer.len, s.buffer.cap - page_size_rows(s.meta), s.buffer.len)
         THEN ImportState(s, "Panic", s.buffer, r.stream, s.pairs, TRUE)
    ELSE \* Write 2 rows
         ImportAfterWrite(s, r,
             MipLevelGen_write_two_rows(
                 [meta |-> s.meta, files |-> s.files, gen |-> s.gen,
                  log |-> s.log, res |-> "Ok"],
                 1, page_size_rows(s.meta),
                 s.buffer.len - (s.buffer.cap - page_size_rows(s.meta)),
                 s.pairs * 2))

\* One iteration of (0..texture_side_len / 2).try_for_each: the read of the
\* next 2 rows into buffer[buffer_border_offset..], then the closure's body.
ImportIteration(s) ==
    IF ~SliceOk(s.buffer.len, buffer_border_offset(s.meta), s.buffer.len)
    THEN ImportState(s, "Panic", s.buffer, s.stream, s.pairs, TRUE)
    ELSE ImportPair(s, read_exact(s.stream, s.buffer.len - buffer_border_offset(s.meta)))

\* The iterations from s on; then the move of the bottom border to the top
\* border, buffer.copy_within(bottom_border.., 0).
RECURSIVE ImportRows(_)
ImportRows(s) ==
    IF s.done THEN s
    ELSE IF s.pairs < s.meta.side_len \div 2 THEN ImportRows(ImportIteration(s))
    ELSE IF ~SliceOk(s.buffer.len, s.buffer.cap - buffer_border_offset(s.meta),
                     s.buffer.len)
         THEN ImportState(s, "Panic", s.buffer, s.stream, s.pairs, TRUE)
    ELSE ImportState(s, "Ok", s.buffer, s.stream, s.pairs, TRUE)

\* import_texture after the read of the top border returned r.
ImportAfterBorder(s, r) ==
    IF r.res # "Ok" THEN ImportState(s, r.res, s.buffer, r.stream, 0, TRUE)
    ELSE ImportRows(ImportState(s, "Ok", s.buffer, r.stream, 0, FALSE))

\* import_texture from the read of the top border into
\* buffer[..buffer_border_offset] on.
ImportFrom(s) ==
    IF ~SliceOk(s.buffer.len, 0, buffer_border_offset(s.meta))
    THEN ImportState(s, "Panic", s.buffer, s.stream, 0, TRUE)
    ELSE ImportAfterBorder(s, read_exact(s.stream, buffer_border_offset(s.meta)))

\* TextureStorage::import_texture on a stream of `stream` bytes.
import_texture(meta, fs, stream) ==
    ImportFrom([meta |-> meta, files |-> fs,
                gen |-> MipLevelGen_from_mip(meta.mip_levels, 0),
                log |-> <<>>, res |-> "Ok",
                buffer |-> VecWithCapacity(BufferCapacity(meta)),
                stream |-> stream, pairs |-> 0, done |-> FALSE])

(***************************************************************************)
(* The storage state machine: a TextureStorage built on from_mip metadata, *)
(* whose directory may already hold row files, and the calls made on it.   *)
(***************************************************************************)
\* The length of one row of pages of a level with page_count pages, as the mip
\* generator documents it:
\* (page_count * PAGE_STRIDE + 2 * BORDER_SIZE) * bytes_per_texel * PAGE_SIZE.
RowBytes(meta, page_count) ==
    (page_count * PAGE_STRIDE + 2 * PAGE_BORDER_SIZE) * meta.bytes_per_texel * PAGE_SIZE

\* The bytes of page_count full pages.
PagesBytes(meta, page_count) ==
    page_count * PAGE_SIZE * PAGE_SIZE * meta.bytes_per_texel

\* The bytes import_texture expects of a well-formed stream: the top border
\* and side_len / 2 reads of the rest of the buffer.
StreamBytes(meta) ==
    buffer_border_offset(meta)
        + (meta.side_len \div 2) * (BufferCapacity(meta) - buffer_border_offset(meta))

\* The streams handed to import_texture: empty, cut in the top border, cut in
\* the rows, complete, and with trailing bytes.
StreamLens(meta) ==
    {0, buffer_border_offset(meta) - 1, buffer_border_offset(meta),
     StreamBytes(meta) - 1, StreamBytes(meta), StreamBytes(meta) + 1}

\* The buffer lengths handed to write_row for level mip: a row of that
\* level's pages with its borders, the bytes of that many full pages, the
\* slice import_texture cuts, a row of the wrong level, and an empty buffer.
DataLens(meta, mip) ==
    {RowBytes(meta, Shr(meta.side_len, mip)),
     PagesBytes(meta, Shr(meta.side_len, mip)),
     PAGE_SIZE * texture_texel_width(meta),
     RowBytes(meta, Shr(meta.side_len, mip) + 1),
     0}

\* The length of a row file left in the directory by an earlier run.
StaleLen == 7

\* The row files a directory may hold before the storage is used.
StaleNames == {<<0, 0>>, <<1, 0>>}

NoCall ==
    [op |-> "none", mip |-> 0, row |-> 0, len |-> 0, stream |-> 0, res |-> "none",
     before |-> NoFiles, log |-> <<>>, gen |-> <<>>,
     buffer |-> [len |-> 0, cap |-> 0], left |-> 0, pairs |-> 0]

Init ==
    /\ \E k \in 0..MaxMip : metadata = TextureMetadata_from_mip(k, 4)[1]
    /\ \E S \in SUBSET StaleNames : files = [n \in S |-> StaleLen]
    /\ last = NoCall
    /\ mipmap_generator = <<>>
    /\ word = <<>>
    /\ PageIdle
    /\ StreamIdle
    /\ MetaIdle

\* A caller runs storage.import_texture(byte_stream) to its end.
ImportTexture ==
    \E stream \in StreamLens(metadata) :
        LET r == import_texture(metadata, files, stream)
        IN /\ files' = r.files
           /\ last' = [op |-> "import_texture", mip |-> 0, row |-> 0, len |-> 0,
                       stream |-> stream, res |-> r.res, before |-> files,
                       log |-> r.log, gen |-> r.gen, buffer |-> r.buffer,
                       left |-> r.stream, pairs |-> r.pairs]
           /\ UNCHANGED <<metadata, mipmap_generator>>

\* A caller runs storage.write_row(mip, row, data) to its end.
WriteRow ==
    \E mip \in 0..(metadata.mip_levels + 1), row \in 0..1 :
        \E len \in DataLens(metadata, mip) :
            LET r == TextureStorage_write_row(metadata, files, mip, row, len)
            IN /\ files' = r.files
               /\ last' = [NoCall EXCEPT !.op = "write_row", !.mip = mip, !.row = row,
                                         !.len = len, !.res = r.res, !.before = files]
               /\ UNCHANGED <<metadata, mipmap_generator>>

Next ==
    \/ ImportTexture /\ UNCHANGED <<pageVars, streamVars, metaVars>>
    \/ WriteRow /\ UNCHANGED <<pageVars, streamVars, metaVars>>

Spec == Init /\ [][Next]_vars

(***************************************************************************)
(* The generator driven by a caller: a chain built by from_mip for the     *)
(* storage's mip_levels, and write_row / write_two_rows calls on its first *)
(* node.                                                                   *)
(***************************************************************************)
\* Bound: the largest row index handed to the generator.
MaxRowIndex == 3

\* The rows handed to the generator, in bytes: a full row of level-0 pages
\* with its borders, the slice import_texture cuts for a row
\* (buffer[0..page_size_rows]), and an empty row.
GenRowLens(meta) == {RowBytes(meta, meta.side_len), page_size_rows(meta), 0}

\* The context of a generator call on the storage and the chain as they are.
GenContext(meta, fs, gen) ==
    [meta |-> meta, files |-> fs, gen |-> gen, log |-> <<>>, res |-> "Ok"]

\* write_row(r0, i)?; write_row(r1, i + 1)? on node 1: the second call is
\* made only when the first returned Ok.
WriteRowTwice(c, l0, l1, first_index) ==
    LET first == MipLevelGen_write_row(c, 1, l0, first_index)
    IN IF first.res # "Ok" THEN first
       ELSE MipLevelGen_write_row(first, 1, l1, first_index + 1)

GenCall(op, index, l0, l1, c, fs, gen) ==
    [op |-> op, index |-> index, l0 |-> l0, l1 |-> l1, res |-> c.res,
     log |-> c.log, before |-> fs, gen_before |-> gen]

GenInit ==
    /\ \E k \in 0..MaxMip : metadata = TextureMetadata_from_mip(k, 4)[1]
    /\ \E S \in SUBSET StaleNames : files = [n \in S |-> StaleLen]
    /\ last = NoCall
    /\ mipmap_generator = <<>>

\* let mut mipmap_generator = MipLevelGen::from_mip(self.metadata.mip_levels, 0)
GenFromMip ==
    /\ mipmap_generator = <<>>
    /\ mipmap_generator' = MipLevelGen_from_mip(metadata.mip_levels, 0)
    /\ last' = [NoCall EXCEPT !.op = "from_mip"]
    /\ UNCHANGED <<metadata, files>>

\* mipmap_generator.write_row(row, index, storage)
GenWriteRow ==
    /\ mipmap_generator # <<>>
    /\ \E index \in 0..MaxRowIndex, row \in GenRowLens(metadata) :
        LET c == MipLevelGen_write_row(GenContext(metadata, files, mipmap_generator),
                                       1, row, index)
        IN /\ files' = c.files
           /\ mipmap_generator' = c.gen
           /\ last' = GenCall("write_row", index, row, row, c, files, mipmap_generator)
    /\ UNCHANGED metadata

\* mipmap_generator.write_two_rows((first_row, second_row), first_index, storage)
GenWriteTwoRows ==
    /\ mipmap_generator # <<>>
    /\ \E first_index \in 0..MaxRowIndex, l0 \in GenRowLens(metadata),
          l1 \in GenRowLens(metadata) :
        LET c == MipLevelGen_write_two_rows(
                     GenContext(metadata, files, mipmap_generator), 1, l0, l1, first_index)
        IN /\ files' = c.files
           /\ mipmap_generator' = c.gen
           /\ last' = GenCall("write_two_rows", first_index, l0, l1, c, files,
                              mipmap_generator)
    /\ UNCHANGED metadata

GenNext ==
    \/ GenFromMip /\ UNCHANGED <<pageVars, streamVars, metaVars>>
    \/ GenWriteRow /\ UNCHANGED <<pageVars, streamVars, metaVars>>
    \/ GenWriteTwoRows /\ UNCHANGED <<pageVars, streamVars, metaVars>>
    \/ ImportTexture /\ UNCHANGED <<pageVars, streamVars, metaVars>>

GenSpecInit == GenInit /\ word = <<>> /\ PageIdle /\ StreamIdle /\ MetaIdle

GenSpec == GenSpecInit /\ [][GenNext]_vars

(***************************************************************************)
(* MipLevelGen as defined in storage/mip_generator.rs.  storage.rs has no  *)
(* `mod mip_generator;`: the file is not part of the crate's module tree   *)
(* and import_texture does not use it.                                     *)
(***************************************************************************)
MipGeneratorNode(mip_level, bytes_per_texel, filter_mode) ==
    [mip_level |-> mip_level, stored_row |-> <<>>,
     bytes_per_texel |-> bytes_per_texel, filter_mode |-> filter_mode]

\* MipLevelGen::from_mip (mip_generator.rs): next_mip = (mip > base_mip).then(..)
RECURSIVE mip_generator_from_mip(_, _, _, _)
mip_generator_from_mip(mip, base_mip, bytes_per_texel, filter_mode) ==
    IF mip > base_mip
    THEN <<MipGeneratorNode(base_mip, bytes_per_texel, filter_mode)>>
         \o mip_generator_from_mip(mip, base_mip + 1, bytes_per_texel, filter_mode)
    ELSE <<MipGeneratorNode(base_mip, bytes_per_texel, filter_mode)>>

\* The row MipLevelGen::mip_two_rows (mip_generator.rs) derives from rows of
\* l0 and l1 bytes: its length in bytes, or -1 when a debug assertion, a slice
\* or an unwrap panics.  Each half is resized to new_width x (PAGE_SIZE / 2)
\* Rgba<u8> pixels.
mip_generator_mip_two_rows(l0, l1, bytes_per_texel, build) ==
    IF build = "debug" /\ ~(l0 = l1) THEN -1
    ELSE IF build = "debug" /\ ~(l0 % PAGE_SIZE = 0) THEN -1
    ELSE IF bytes_per_texel = 0 THEN -1
    ELSE LET row_width == l0 \div PAGE_SIZE
             row_texel_width == row_width \div bytes_per_texel
             horizontal_border_size == PAGE_BORDER_SIZE * row_width
             bottom_border_start == l0 - horizontal_border_size
             top_border_end == horizontal_border_size
             wide == row_texel_width \div 2 + PAGE_BORDER_SIZE
             new_width == IF wide > PAGE_SIZE THEN wide ELSE PAGE_SIZE
             new_height == PAGE_SIZE \div 2
         IN IF ~FromRawIsSome(row_texel_width, PAGE_SIZE - PAGE_BORDER_SIZE,
                              bottom_border_start) THEN -1
            ELSE IF top_border_end > l1 THEN -1
            ELSE IF ~FromRawIsSome(row_texel_width, PAGE_SIZE - 4,
                                   l1 - top_border_end) THEN -1
            ELSE 2 * (new_width * new_height * 4)

(***************************************************************************)
(* TextureMetadata constructors and the metadata sidecar written by        *)
(* TextureStorage::new and read by TextureStorage::load (storage.rs).      *)
(* A text file is a sequence of segments: a JSON object with its members   *)
(* in order, text that is not JSON, or bytes that are not UTF-8.           *)
(***************************************************************************)
\* u16 arithmetic traps on overflow in a debug build and wraps in a release build.
Builds == {"debug", "release"}

\* n -= 1 on a u16; <<>> when the subtraction panics.
SubOne16(n, build) ==
    IF n > 0 THEN <<n - 1>>
    ELSE IF build = "debug" THEN <<>> ELSE <<65535>>

\* n + 1 on a u16; <<>> when the addition panics.
AddOne16(n, build) ==
    IF n < 65535 THEN <<n + 1>>
    ELSE IF build = "debug" THEN <<>> ELSE <<0>>

\* n |= n >> 1; n |= n >> 2; n |= n >> 4; n |= n >> 8
Smear(n) ==
    LET n1 == BitOr(n, Shr(n, 1))
        n2 == BitOr(n1, Shr(n1, 2))
        n4 == BitOr(n2, Shr(n2, 4))
    IN BitOr(n4, Shr(n4, 8))

\* next_power_of_two; <<>> when it panics.
next_power_of_two(n, build) ==
    LET dec == SubOne16(n, build)
    IN IF dec = <<>> THEN <<>> ELSE AddOne16(Smear(dec[1]), build)

\* TextureMetadata::from_dimensions; <<>> when an assertion fails, the rounding
\* panics, or ilog2 is taken of 0.
TextureMetadata_from_dimensions(page_size, bytes_per_texel, build) ==
    IF ~(page_size <= MAX_TEXTURE_SIZE) THEN <<>>
    ELSE IF ~(bytes_per_texel = 4) THEN <<>>
    ELSE LET rounded == next_power_of_two(page_size, build)
         IN IF rounded = <<>> THEN <<>>
            ELSE IF rounded[1] = 0 THEN <<>>
            ELSE <<[side_len |-> rounded[1],
                    bytes_per_texel |-> bytes_per_texel,
                    mip_levels |-> ilog2(rounded[1])]>>

Object(members) == [kind |-> "object", members |-> members]

NotJson == [kind |-> "garbage", members |-> <<>>]

NotUtf8 == [kind |-> "binary", members |-> <<>>]

\* miniserde::json::to_string(&metadata): the members in declaration order.
to_string(m) ==
    <<Object(<<<<"side_len", m.side_len>>,
               <<"bytes_per_texel", m.bytes_per_texel>>,
               <<"mip_levels", m.mip_levels>>>>)>>

\* The value of the last member named key, <<>> if there is none.
Member(members, key) ==
    LET at == {i \in DOMAIN members : members[i][1] = key}
    IN IF at = {} THEN <<>>
       ELSE <<members[CHOOSE i \in at : \A j \in at : j <= i][2]>>

\* A number read into an unsigned field of `bits` bits: <<>> if it is missing
\* or does not fit.
Unsigned(value, bits) ==
    IF value = <<>> THEN <<>>
    ELSE IF value[1] < 0 \/ value[1] >= Pow2(bits) THEN <<>>
    ELSE value

\* A parser that takes 0 for a member that is missing or out of range.
from_str_lenient(text) ==
    IF Len(text) # 1 \/ text[1].kind # "object"
    THEN [ok |-> FALSE, value |-> <<>>]
    ELSE LET field(key, bits) ==
                 LET v == Unsigned(Member(text[1].members, key), bits)
                 IN IF v = <<>> THEN 0 ELSE v[1]
         IN [ok |-> TRUE,
             value |-> [side_len |-> field("side_len", 16),
                        bytes_per_texel |-> field("bytes_per_texel", 8),
                        mip_levels |-> field("mip_levels", 8)]]

\* miniserde::json::from_str::<TextureMetadata>: the text is one JSON object
\* with the three members present and in the range of their types; other
\* members are ignored. No relation between the members is checked.
from_str(text) ==
    IF Len(text) # 1 \/ text[1].kind # "object"
    THEN [ok |-> FALSE, value |-> <<>>]
    ELSE LET side_len == Unsigned(Member(text[1].members, "side_len"), 16)
             bytes_per_texel == Unsigned(Member(text[1].members, "bytes_per_texel"), 8)
             mip_levels == Unsigned(Member(text[1].members, "mip_levels"), 8)
         IN IF side_len = <<>> \/ bytes_per_texel = <<>> \/ mip_levels = <<>>
            THEN [ok |-> FALSE, value |-> <<>>]
            ELSE [ok |-> TRUE,
                  value |-> [side_len |-> side_len[1],
                             bytes_per_texel |-> bytes_per_texel[1],
                             mip_levels |-> mip_levels[1]]]

\* Opening the file for writing without truncating it (writes go to its end).
File_open_append(file) == IF file = <<>> THEN <<<<>>>> ELSE file

\* File::create: the file exists and is empty.
File_create(file) == <<<<>>>>

\* File::write_all on a file just opened: the text is added to the content.
write_all(file, text) == <<file[1] \o text>>

\* String::read_to_string: fails on bytes that are not UTF-8.
read_to_string(content) ==
    \A i \in DOMAIN content : content[i].kind # "binary"

\* A constructor that makes the directory with create_dir, which fails with
\* AlreadyExists on a directory that is there.
TextureStorage_new_exclusive(m, d, file) ==
    IF d THEN [res |-> "IoError", dir |-> d, sidecar |-> file, metadata |-> <<>>]
    ELSE [res |-> "Ok", dir |-> TRUE,
          sidecar |-> write_all(File_create(file), to_string(m)),
          metadata |-> <<m>>]

\* TextureStorage::new(metadata, directory, None) on a directory path that is
\* free or a directory: create_dir_all and File::create succeed.
TextureStorage_new(m, d, file) ==
    LET meta_file == File_create(file)
    IN [res |-> "Ok", dir |-> TRUE,
        sidecar |-> write_all(meta_file, to_string(m)),
        metadata |-> <<m>>]

\* TextureStorage::load(directory, None)
TextureStorage_load(d, file) ==
    IF ~d \/ file = <<>>
    THEN [res |-> "IoError", metadata |-> <<>>]
    ELSE IF ~read_to_string(file[1])
    THEN [res |-> "IoError", metadata |-> <<>>]
    ELSE LET parsed == from_str(file[1])
         IN IF ~parsed.ok
            THEN [res |-> "Deserialization", metadata |-> <<>>]
            ELSE [res |-> "Ok", metadata |-> <<parsed.value>>]

\* Bound: the largest mip_levels handed to TextureMetadata::from_mip.
MaxMipArg == 13

\* The side-length hints handed to TextureMetadata::from_dimensions.
Hints == {0, 1, 2, 3, 5, 1024, 1025, 2047, 2048, 2049, 4096, 65535}

\* The metadata a caller can hold: the fields are private, a TextureMetadata
\* comes from one of the two constructors.
ValidMetadata ==
    {TextureMetadata_from_mip(k, 4)[1] : k \in 0..MaxMip}
    \cup {TextureMetadata_from_dimensions(h, 4, "release")[1] :
            h \in {g \in Hints : TextureMetadata_from_dimensions(g, 4, "release") # <<>>}}

\* What a sidecar left by an earlier run, or edited by hand, may hold.
OldSidecars ==
    {<<Object(<<<<"side_len", s>>, <<"bytes_per_texel", b>>, <<"mip_levels", m>>>>)>> :
        s \in {2, 3, 70000}, b \in {4, 1}, m \in {1, 7}}
    \cup {<<Object(<<<<"side_len", 2>>, <<"mip_levels", 1>>>>)>>,
          <<Object(<<<<"mip_levels", 0>>, <<"encoding", 1>>, <<"bytes_per_texel", 4>>,
                     <<"side_len", 1>>>>)>>,
          <<NotJson>>, <<NotUtf8>>, <<>>}

NoMetaCall ==
    [op |-> "none", arg |-> <<>>, res |-> "none", made |-> <<>>,
     dir |-> FALSE, sidecar |-> <<>>, created |-> <<>>, replaced |-> <<>>]

\* Before any call: the directory is absent, or exists with or without a sidecar.
MetaInit ==
    /\ dir \in BOOLEAN
    /\ sidecar \in {<<>>} \cup (IF dir THEN {<<c>> : c \in OldSidecars} ELSE {})
    /\ call = NoMetaCall

\* TextureMetadata::from_mip(mip_levels, bytes_per_texel)
FromMip ==
    \E mip_levels \in 0..MaxMipArg, bytes_per_texel \in {3, 4} :
        /\ call' = [call EXCEPT !.op = "from_mip",
                                !.arg = <<mip_levels, bytes_per_texel>>,
                                !.made = TextureMetadata_from_mip(mip_levels, bytes_per_texel),
                                !.res = IF TextureMetadata_from_mip(mip_levels, bytes_per_texel) = <<>>
                                        THEN "Panic" ELSE "Ok"]
        /\ UNCHANGED <<dir, sidecar, metadata>>

\* TextureMetadata::from_dimensions(page_size, bytes_per_texel)
FromDimensions ==
    \E page_size \in Hints, bytes_per_texel \in {3, 4}, build \in Builds :
        /\ call' = [call EXCEPT !.op = "from_dimensions",
                                !.arg = <<page_size, bytes_per_texel>>,
                                !.made = TextureMetadata_from_dimensions(page_size, bytes_per_texel, build),
                                !.res = IF TextureMetadata_from_dimensions(page_size, bytes_per_texel, build) = <<>>
                                        THEN "Panic" ELSE "Ok"]
        /\ UNCHANGED <<dir, sidecar, metadata>>

\* TextureStorage::new(meta, Some(directory), None)
New ==
    \E m \in ValidMetadata :
        LET r == TextureStorage_new(m, dir, sidecar)
        IN /\ dir' = r.dir
           /\ sidecar' = r.sidecar
           /\ metadata' = r.metadata
           /\ call' = [call EXCEPT !.op = "new", !.arg = <<m>>, !.res = r.res,
                                   !.dir = dir, !.sidecar = sidecar, !.created = <<m>>,
                                   !.replaced = sidecar]

\* TextureStorage::load(Some(directory), None)
Load ==
    LET r == TextureStorage_load(dir, sidecar)
    IN /\ metadata' = r.metadata
       /\ call' = [call EXCEPT !.op = "load", !.arg = <<>>, !.res = r.res,
                               !.dir = dir, !.sidecar = sidecar]
       /\ UNCHANGED <<dir, sidecar>>

MetaNext ==
    \/ FromMip /\ UNCHANGED <<pageVars, files, last, mipmap_generator, streamVars>>
    \/ FromDimensions /\ UNCHANGED <<pageVars, files, last, mipmap_generator, streamVars>>
    \/ New /\ UNCHANGED <<pageVars, files, last, mipmap_generator, streamVars>>
    \/ Load /\ UNCHANGED <<pageVars, files, last, mipmap_generator, streamVars>>

MetaSpecInit ==
    /\ MetaInit
    /\ metadata = <<>>
    /\ files = <<>>
    /\ last = <<>>
    /\ mipmap_generator = <<>>
    /\ word = <<>>
    /\ PageIdle
    /\ StreamIdle

MetaSpec == MetaSpecInit /\ [][MetaNext]_vars

(***************************************************************************)
(* Claims about TextureStorage and import_texture, checked under Spec.     *)
(***************************************************************************)
\* The row files of a complete mip pyramid: rows 0 .. (side_len >> m) - 1 of
\* every level m in 0 .. mip_levels.
Pyramid(meta) ==
    {n \in (0..meta.mip_levels) \X (0..(meta.side_len - 1)) :
        n[2] < Shr(meta.side_len, n[1])}

\* How many of the logged storage.write_row calls were for row file `name`.
RECURSIVE WritesOf(_, _)
WritesOf(log, name) ==
    IF log = <<>> THEN 0
    ELSE (IF <<Head(log).mip, Head(log).row>> = name THEN 1 ELSE 0)
             + WritesOf(Tail(log), name)

\* The last call was import_texture on a stream holding every byte the
\* import reads, in a directory without row files.
ImportedWholeImage ==
    /\ last.op = "import_texture"
    /\ last.stream >= StreamBytes(metadata)
    /\ last.before = NoFiles

\* The last call was write_row with a buffer whose page count is that of the
\* level: side_len >> mip.
WroteRightPageCount ==
    /\ last.op = "write_row"
    /\ PageCount(metadata, last.len) = Shr(metadata.side_len, last.mip)

\* C1: importing an image of side_len = 2^k, mip_levels = k returns Ok and leaves
\* exactly the row files m-r, 0 <= m <= k, 0 <= r < (side_len >> m), for every k
\* from 0 up.
C1_ImportWritesPyramid ==
    ImportedWholeImage => (last.res = "Ok" /\ DOMAIN files = Pyramid(metadata))

\* C2: one import_texture run calls storage.write_row at most once per (mip, row)
\* and, completing, exactly once for each row of the pyramid.
C2_EachRowWrittenOnce ==
    ImportedWholeImage =>
        /\ \A i \in 1..Len(last.log) :
               WritesOf(last.log, <<last.log[i].mip, last.log[i].row>>) = 1
        /\ last.res = "Ok"
        /\ \A n \in Pyramid(metadata) : WritesOf(last.log, n) = 1

\* C3: write_row leaves the file {mip}-{row} holding exactly
\* (side_len >> mip) * PAGE_SIZE * PAGE_SIZE * bytes_per_texel bytes.
C3_RowFileHoldsFullPages ==
    WroteRightPageCount =>
        /\ last.res = "Ok"
        /\ Exists(files, <<last.mip, last.row>>)
        /\ files[<<last.mip, last.row>>] =
               PagesBytes(metadata, Shr(metadata.side_len, last.mip))

\* C4: write_row with a buffer of the right page count succeeds whether or not
\* the file exists: it is created, or truncated so that nothing of the old
\* file is left.
C4_WriteRowCreatesOrTruncates ==
    WroteRightPageCount =>
        /\ last.res = "Ok"
        /\ Exists(files, <<last.mip, last.row>>)
        /\ \A n \in DOMAIN last.before :
               Exists(files, n) /\ (n # <<last.mip, last.row>> => files[n] = last.before[n])
        /\ files[<<last.mip, last.row>>] <= last.len

\* The index of the first failed storage.write_row of a log (0: none failed).
RECURSIVE FirstFailure(_, _)
FirstFailure(log, i) ==
    IF i > Len(log) THEN 0
    ELSE IF log[i].res # "Ok" THEN i
    ELSE FirstFailure(log, i + 1)

\* C5: import_texture returns an I/O error when the stream ends before the top
\* border and every row pair are read, and the storage error of the first
\* write_row that fails, after which it makes no further write_row call.
C5_ImportReturnsErrors ==
    last.op = "import_texture" =>
        /\ (last.stream < StreamBytes(metadata) /\ FirstFailure(last.log, 1) = 0)
               => last.res = "IoError"
        /\ FirstFailure(last.log, 1) # 0
               => /\ last.res = last.log[FirstFailure(last.log, 1)].res
                  /\ FirstFailure(last.log, 1) = Len(last.log)

\* The rows buffered by the nodes of a chain.
RECURSIVE StoredRows(_)
StoredRows(gen) ==
    IF gen = <<>> THEN 0 ELSE Len(Head(gen).stored_row) + StoredRows(Tail(gen))

\* C6: during import_texture the sliding buffer holds exactly one border strip
\* plus two finest-level rows, a size fixed before the loop, and every node
\* buffers at most one row, so at most 2 + mip_levels rows are live.
C6_BufferHoldsBorderAndTwoRows ==
    last.op = "import_texture" =>
        /\ last.buffer.cap = BufferCapacity(metadata)
        /\ last.buffer.len = BufferCapacity(metadata)
        /\ \A i \in 1..Len(last.gen) : Len(last.gen[i].stored_row) <= 1
        /\ 2 + StoredRows(last.gen) <= 2 + metadata.mip_levels

(***************************************************************************)
(* Claims about PageId, checked under PageSpec.                            *)
(***************************************************************************)
\* The documented wire layout (spec 4.4): the fields of a 4-byte chunk.
LayoutPageX(bytes) == BitOr(Shl16(bytes[1], 6), Shr(bytes[2], 2))

LayoutPageY(bytes) ==
    BitOr(BitOr(Shl16(BitAnd(bytes[2], 3), 12), Shl16(bytes[3], 4)), Shr(bytes[4], 4))

LayoutMip(bytes) == BitAnd(bytes[4], 15)

\* The word that packs a PageId by the documented layout (the source has no
\* encoder).
encode(p) ==
    <<Shr(p.page_x, 6) % 256,
      BitOr((p.page_x % 64) * 4, Shr(p.page_y, 12) % 4),
      Shr(p.page_y, 4) % 256,
      BitOr((p.page_y % 16) * 16, p.mip_level % 16)>>

InFieldWidths(p) == p.page_x < 16384 /\ p.page_y < 16384 /\ p.mip_level < 16

\* C7: every decoded chunk b has page_x = (b[0] << 6) | (b[1] >> 2),
\* page_y = ((b[1] & 3) << 12) | (b[2] << 4) | (b[3] >> 4), mip_level = b[3] & 15,
\* hence page_x < 2^14, page_y < 2^14, mip_level < 2^4.
C7_DecodeFollowsLayout ==
    pid # <<>> =>
        /\ pid[1].page_x = LayoutPageX(word)
        /\ pid[1].page_y = LayoutPageY(word)
        /\ pid[1].mip_level = LayoutMip(word)
        /\ InFieldWidths(pid[1])

TestVector == <<0, 4, 0, 16>>

\* C8 (as stated): [0x00, 0x04, 0x00, 0x10] decodes to page_x = 1, page_y = 0,
\* mip_level = 0.
C8_VectorAsStated ==
    (word = TestVector /\ pid # <<>>) => pid[1] = PageId(1, 0, 0)

\* C8 (amended): [0x00, 0x04, 0x00, 0x10] decodes to page_x = 1, page_y = 1,
\* mip_level = 0: the high nibble of the last byte is page_y's low bits.
C8_VectorDecodes ==
    (word = TestVector /\ pid # <<>>) => pid[1] = PageId(1, 1, 0)

C8_Witness == word = TestVector /\ pid # <<>> /\ pid[1].page_x = 1

\* C9: from_bytes is a bijection onto the triples within the field widths: no
\* other word decodes to the PageId of this word, and a decoded PageId, packed
\* by the documented layout, decodes to itself.
C9_DecodeIsBijection ==
    (pid # <<>> /\ other = <<>>) =>
        /\ \A w \in Words : from_bytes(w) = pid[1] => w = word
        /\ InFieldWidths(pid[1])
        /\ from_bytes(encode(pid[1])) = pid[1]

\* The strict order "mip_level, then page_y, then page_x, ascending".
LexLess(a, b) ==
    \/ a.mip_level < b.mip_level
    \/ a.mip_level = b.mip_level /\ a.page_y < b.page_y
    \/ a.mip_level = b.mip_level /\ a.page_y = b.page_y /\ a.page_x < b.page_x

\* C10: cmp orders PageIds by mip_level, then page_y, then page_x, ascending (the
\* lexicographic order LexLess, a total order); it is antisymmetric, Equal
\* exactly when the two values are equal in all three fields (as == decides),
\* and partial_cmp is Some of cmp.
C10_CmpIsLexTotalOrder ==
    ord # <<>> =>
        LET a == pid[1]
            b == other[1]
        IN /\ (ord[1] = "Less") <=> LexLess(a, b)
           /\ (ord[1] = "Greater") <=> LexLess(b, a)
           /\ (ord[1] = "Equal") <=> eq[1]
           /\ (ord[1] = "Equal") <=> (a = b)
           /\ pord[1] = [some |-> TRUE, value |-> ord[1]]
           /\ cmp(b, a) = Reverse(ord[1])

\* Two PageIds of the same mip level and row, ordered by page_x alone.
C10_Witness ==
    /\ ord = <<"Less">>
    /\ pid[1].mip_level = other[1].mip_level
    /\ pid[1].page_y = other[1].page_y
    /\ pid[1].page_x < other[1].page_x

(***************************************************************************)
(* Claims about the feedback worker, checked under StreamSpec / StreamLive.*)
(***************************************************************************)
\* The worker has finished a reduction and is back at rx.recv().
Reduced == pc = "recv" /\ cycle # <<>> /\ cycle[Len(cycle)] = "dedup"

\* C11: for a buffer whose length is a multiple of 4, the reduction (decode
\* every chunk, sort by the reversed order, dedup) is strictly descending by
\* (mip_level, page_y, page_x), so larger mip levels come first, and holds
\* exactly the PageIds of the len/4 chunks, each once.
C11_ReductionSortedAndDeduplicated ==
    (Reduced /\ Len(buffer_view.bytes) % 4 = 0) =>
        LET v == required_pages
            chunks == chunks_exact(buffer_view.bytes, 4)
        IN /\ \A i \in 1..(Len(v) - 1) : LexLess(v[i + 1], v[i])
           /\ \A i, j \in 1..Len(v) : i < j => v[i].mip_level >= v[j].mip_level
           /\ {v[i] : i \in 1..Len(v)} = {from_bytes(chunks[i]) : i \in 1..Len(chunks)}
           /\ Len(chunks) = Len(buffer_view.bytes) \div 4
           /\ \A i, j \in 1..Len(v) : i # j => v[i] # v[j]

\* C11 witness: three chunks of two mip levels, two of them the same PageId,
\* were reduced to two entries.
C11_Witness ==
    /\ Reduced
    /\ Len(buffer_view.bytes) = 12
    /\ Len(required_pages) = 2
    /\ required_pages[1].mip_level > required_pages[2].mip_level
    /\ from_bytes(SubSeq(buffer_view.bytes, 1, 4)).mip_level = 0
    /\ from_bytes(SubSeq(buffer_view.bytes, 9, 12)).mip_level = 0

\* C12: in every cycle the buffer view is read only between the notification
\* and the unmap: the unmap comes after the read of the view and before the
\* worker waits for the next notification.
C12_ReadsBeforeUnmap ==
    /\ \A i \in DOMAIN cycle :
          cycle[i] = "unmap" => \E j \in 1..(i - 1) : cycle[j] = "collect"
    /\ \A i \in DOMAIN cycle :
          cycle[i] = "collect" => \A j \in 1..(i - 1) : cycle[j] # "unmap"
    /\ Reduced => \E i \in DOMAIN cycle : cycle[i] = "unmap"

C14_AtMostOnePending ==
    /\ pending <= 1
    /\ pc # "panicked" => started + pending = sent

\* C14 witness: a notification is pending while the worker is still busy with
\* the cycle before it.
C14_Witness == pending = 1 /\ started = 1 /\ sent = 2 /\ pc = "collect"

\* C15: the worker never terminates, also after the StreamingHandle and its
\* sender are dropped: it waits for a notification or processes one.
C15_WorkerNeverTerminates ==
    pc \in {"recv", "get_mapped_range", "unmap", "collect", "sort", "dedup"}

(***************************************************************************)
(* Claims about TextureMetadata, TextureStorage::new and load, checked     *)
(* under MetaSpec.                                                         *)
(***************************************************************************)
\* C16: for every mip in 0..=12, from_mip(mip, 4) succeeds with
\* side_len = 2^mip and mip_levels = mip.
C16_FromMipUpToTwelve ==
    (call.op = "from_mip" /\ call.arg[1] \in 0..12 /\ call.arg[2] = 4) =>
        /\ call.made # <<>>
        /\ call.made[1].side_len = Pow2(call.arg[1])
        /\ call.made[1].mip_levels = call.arg[1]

\* The smallest power of two that is at least h (h a u16).
SmallestPowerOfTwoFrom(h) ==
    CHOOSE p \in {Pow2(k) : k \in 0..16} :
        p >= h /\ \A q \in {Pow2(k) : k \in 0..16} : q >= h => p <= q

\* C17: from_dimensions(h, b) returns the smallest power of two >= h as
\* side_len, with mip_levels = log2(side_len), when b = 4 and that power does
\* not exceed the maximum side length; otherwise it fails. The rounding
\* neither underflows nor overflows.
C17_FromDimensionsRoundsUp ==
    call.op = "from_dimensions" =>
        LET p == SmallestPowerOfTwoFrom(call.arg[1])
        IN IF call.arg[2] = 4 /\ p <= MAX_TEXTURE_SIZE
           THEN /\ call.made # <<>>
                /\ call.made[1].side_len = p
                /\ Pow2(call.made[1].mip_levels) = p
           ELSE call.made = <<>>

\* C18: the metadata of every TextureStorage obtained from new or load has a
\* power-of-two side_len within the maximum, mip_levels = log2(side_len) and
\* bytes_per_texel = 4, whatever the sidecar holds.
C18_StorageMetadataWellFormed ==
    metadata # <<>> =>
        /\ \E k \in 0..16 : metadata[1].side_len = Pow2(k)
        /\ metadata[1].side_len <= MAX_TEXTURE_SIZE
        /\ Pow2(metadata[1].mip_levels) = metadata[1].side_len
        /\ metadata[1].bytes_per_texel = 4

HasUnsigned(text, key, bits) ==
    LET members == text[1].members
    IN \E i \in DOMAIN members :
        /\ members[i][1] = key
        /\ \A j \in DOMAIN members : members[j][1] = key => j <= i
        /\ members[i][2] \in 0..(Pow2(bits) - 1)

\* The sidecar text is a TextureMetadata in JSON.
ParsesAsMetadata(text) ==
    /\ Len(text) = 1
    /\ text[1].kind = "object"
    /\ HasUnsigned(text, "side_len", 16)
    /\ HasUnsigned(text, "bytes_per_texel", 8)
    /\ HasUnsigned(text, "mip_levels", 8)

\* C20: load returns an I/O error when the sidecar is missing or unreadable
\* and a Deserialization error when it is present but does not parse; it
\* never panics and leaves the directory and the file as they were.
C20_LoadReportsErrors ==
    call.op = "load" =>
        /\ call.sidecar = <<>> => call.res = "IoError"
        /\ (call.sidecar # <<>> /\ ~read_to_string(call.sidecar[1])) =>
              call.res = "IoError"
        /\ (call.sidecar # <<>> /\ read_to_string(call.sidecar[1])
              /\ ~ParsesAsMetadata(call.sidecar[1])) =>
              call.res = "Deserialization"
        /\ call.res \in {"Ok", "IoError", "Deserialization"}
        /\ call.res # "Ok" => metadata = <<>>
        /\ dir = call.dir
        /\ sidecar = call.sidecar

\* C20 witness: a sidecar without bytes_per_texel was loaded and reported as a
\* Deserialization error.
C20_Witness ==
    /\ call.op = "load"
    /\ call.sidecar = <<<<Object(<<<<"side_len", 2>>, <<"mip_levels", 1>>>>)>>>>
    /\ call.res = "Deserialization"
    /\ sidecar = call.sidecar

ChainWellFormed(chain, k) ==
    /\ Len(chain) = k + 1
    /\ \A i \in 1..Len(chain) :
        chain[i].mip_level = i - 1 /\ chain[i].stored_row = <<>>
    /\ chain[Len(chain)].mip_level = k

\* C22: the chain built by MipLevelGen::from_mip(k, 0, ..) for a texture with
\* mip_levels = k has exactly k + 1 nodes with levels 0, 1, ..., k in link
\* order, every node without a buffered row, and next_mip None exactly at the
\* node of level k -- for the generator import_texture builds (storage.rs)
\* and for the one of storage/mip_generator.rs.
C22_ChainHasOneNodePerLevel ==
    /\ mipmap_generator # <<>> =>
           ChainWellFormed(mipmap_generator, metadata.mip_levels)
    /\ \A k \in 0..MaxMip :
           ChainWellFormed(mip_generator_from_mip(k, 0, 4, "Nearest"), k)

\* A write_row call made on the head node with a full row of the node's level
\* and, when the node holds no row, an even index.
WellFormedWriteRow ==
    /\ last.op = "write_row"
    /\ last.l0 = RowBytes(metadata, metadata.side_len)
    /\ last.gen_before[1].stored_row = <<>> => last.index % 2 = 0

\* C23: MipLevelGen.write_row(row, index) first persists the row at the node's
\* own level under the given index; a node without a buffered row then buffers
\* (row, index) and forwards nothing; a node with a buffered row (r0, i0)
\* clears its buffer and forwards exactly one derived row to
\* next_mip.write_row at index i0 / 2, or nothing when next_mip is None.
\* (A node holds at most one buffered row: stored_row is an Option.)
C23_WriteRowStateMachine ==
    WellFormedWriteRow =>
        /\ Len(last.log) >= 1
        /\ last.log[1] = LogEntry(0, last.index, last.l0, "Ok")
        /\ Exists(files, <<0, last.index>>)
        /\ Len(mipmap_generator[1].stored_row) <= 1
        /\ last.gen_before[1].stored_row = <<>> =>
               /\ mipmap_generator[1].stored_row =
                      <<[len |-> last.l0, index |-> last.index]>>
               /\ Len(last.log) = 1
        /\ last.gen_before[1].stored_row # <<>> =>
               /\ mipmap_generator[1].stored_row = <<>>
               /\ IF Len(mipmap_generator) > 1
                  THEN /\ Len(last.log) >= 2
                       /\ last.log[2].mip = 1
                       /\ last.log[2].row = last.gen_before[1].stored_row[1].index \div 2
                  ELSE Len(last.log) = 1

\* The row indices of the storage.write_row calls of level m, in call order.
RECURSIVE RowsOfLevel(_, _)
RowsOfLevel(log, m) ==
    IF log = <<>> THEN <<>>
    ELSE IF Head(log).mip = m THEN <<Head(log).row>> \o RowsOfLevel(Tail(log), m)
    ELSE RowsOfLevel(Tail(log), m)

\* C24: during the import of a whole image the rows of each level are written
\* in increasing index order 0, 1, 2, ...; the row (m + 1, r) is written only
\* after the rows (m, 2r) and (m, 2r + 1), and before any row of level m with
\* an index greater than 2r + 1.
C24_ImportWriteOrder ==
    ImportedWholeImage =>
        /\ \A m \in 0..metadata.mip_levels :
               RowsOfLevel(last.log, m) =
                   [i \in 1..Shr(metadata.side_len, m) |-> i - 1]
        /\ \A i, j \in 1..Len(last.log) :
               last.log[j].mip = last.log[i].mip + 1 =>
                   /\ last.log[i].row \in {2 * last.log[j].row, 2 * last.log[j].row + 1}
                          => i < j
                   /\ last.log[i].row > 2 * last.log[j].row + 1 => j < i

\* A write_two_rows call made on a head node without a buffered row, with an
\* even first_index.
WroteTwoRowsOnEmptyNode ==
    /\ last.op = "write_two_rows"
    /\ last.gen_before[1].stored_row = <<>>
    /\ last.index % 2 = 0

CopyWithinCalls(imp) == IF imp.res = "Ok" THEN 1 ELSE 0

\* C26: import_texture of a whole image runs side_len / 2 iterations, each one
\* reading the next two rows, handing the pair to the generator and then
\* copying the trailing border of the buffer to the leading border: one
\* recycling per iteration, after the iteration's writes.
C26_BorderRecycledEachIteration ==
    ImportedWholeImage =>
        /\ last.res = "Ok"
        /\ last.pairs = metadata.side_len \div 2
        /\ Len(last.log) >= 2 * last.pairs
        /\ CopyWithinCalls(last) = last.pairs

\* write_two_rows was called with the two rows import_texture slices from its
\* buffer: buffer[0..page_size_rows] and buffer[capacity - page_size_rows..].
WroteImportSlices ==
    /\ last.op = "write_two_rows"
    /\ last.l0 = page_size_rows(metadata)
    /\ last.l1 = page_size_rows(metadata)
    /\ last.index % 2 = 0
    /\ last.index < metadata.side_len

\* The full rows of level m of a texture: two adjacent rows of
\* side_len >> m pages with their borders.
LevelRow(meta, m) == RowBytes(meta, Shr(meta.side_len, m))

\* C27: every buffer handed to TextureStorage.write_row at level m during an
\* import has the page count side_len >> m, so the page-count assertion never
\* fires: the two rows sliced from the sliding buffer, and every row
\* mip_two_rows derives from two rows of level m (page count
\* side_len >> (m + 1)), for the generator of storage.rs and the one of
\* storage/mip_generator.rs.  The derived rows are those of a generator that
\* has been built: levels m < mip_levels, none before from_mip has run.
C27_PageCountAssertionNeverFires ==
    /\ WroteImportSlices =>
           /\ Len(last.log) >= 1
           /\ \A i \in 1..Len(last.log) :
                  PageCount(metadata, last.log[i].len) =
                      Shr(metadata.side_len, last.log[i].mip)
           /\ last.res # "Panic"
    /\ \A m \in (IF mipmap_generator = <<>> THEN {}
                ELSE 0..(metadata.mip_levels - 1)) :
           /\ PageCount(metadata,
                        mip_generator_mip_two_rows(LevelRow(metadata, m),
                                                   LevelRow(metadata, m),
                                                   metadata.bytes_per_texel, "debug"))
                  = Shr(metadata.side_len, m + 1)
           /\ PageCount(metadata, mip_two_rows(LevelRow(metadata, m),
                                               LevelRow(metadata, m)))
                  = Shr(metadata.side_len, m + 1)

\* C28: during import_texture the level-0 node never holds a buffered row,
\* every row buffered by a coarser node has an even index, and the rows handed
\* to a node come with consecutive indices (a buffered row of index i is
\* paired with the row of index i + 1).  The chain and the log are those the
\* import ended with.
C28_ImportKeepsPairsAligned ==
    last.op = "import_texture" =>
        /\ last.gen[1].stored_row = <<>>
        /\ \A i \in 2..Len(last.gen) :
               last.gen[i].stored_row # <<>> =>
                   last.gen[i].stored_row[1].index % 2 = 0
        /\ \A m \in 0..metadata.mip_levels :
               \A j \in 1..(Len(RowsOfLevel(last.log, m)) - 1) :
                   RowsOfLevel(last.log, m)[j + 1] = RowsOfLevel(last.log, m)[j] + 1

\* How many of the logged storage.write_row calls were made by coarser nodes
\* (levels above 0): the nodes a cascade from the finest node visited.
RECURSIVE CoarserWrites(_)
CoarserWrites(log) ==
    IF log = <<>> THEN 0
    ELSE (IF Head(log).mip > 0 THEN 1 ELSE 0) + CoarserWrites(Tail(log))

WroteOddRowOnEmptyNode ==
    /\ last.op = "write_row"
    /\ last.gen_before[1].stored_row = <<>>
    /\ last.index % 2 = 1

=============================================================================
